---- MODULE Spec2Model ----
(***************************************************************************)
(* Constrained Monte Carlo integrator, src/src/simulate/cmc.cpp.           *)
(*                                                                         *)
(* Numbers.  The code works in double precision; the model works in exact  *)
(* arithmetic on a lattice.  A spin component v is stored as the integer   *)
(* SpinScale*v, so a unit spin is an integer vector of squared length      *)
(* SpinScale^2.  The constraint angles are multiples of 90 degrees, whose  *)
(* sines and cosines are 0, 1 or -1, so the rotation matrices are integer  *)
(* matrices.  The temperature is the one with exp(-kBTBohr) = 1/2, so the  *)
(* Boltzmann factor of an integer energy difference is a power of two.     *)
(* The uniform draw is one of the fractions of Uniforms, in [0,1).         *)
(***************************************************************************)
EXTENDS Integers, Sequences, FiniteSets

\* ------------------------------------------------------------ bounds
NumAtoms == 3
SpinScale == 3
MaxTrials == 3

\* sim::constraint_phi, sim::constraint_theta: the pairs a run may be given
ConstraintAngles == {<<0, 0>>, <<90, 90>>}
\* values of delta_energy1 and of delta_energy2 (Joules/mu_B)
DeltaEnergies == {-1, 1}

Atoms == 0 .. (NumAtoms - 1)
\* values of mtrandom::grnd(), each a fraction << numerator, denominator >>
Uniforms == {<<0, 1>>, <<1, 2>>}
\* lengths of the trial vector, in lattice units
TrialLengths == {1, SpinScale}
Coord == (0 - SpinScale) .. SpinScale

VARIABLES
  constraint_phi, constraint_theta,
  polar_matrix, polar_matrix_tp, polar_vector,
  is_initialised,
  spin,
  thermal_flag,
  mc_success, mc_total, sphere_reject, energy_reject,
  M_other, mcs, pc,
  loc,
  event, trials, sweep_total0

vars == << constraint_phi, constraint_theta, polar_matrix, polar_matrix_tp,
           polar_vector, is_initialised, spin, thermal_flag,
           mc_success, mc_total, sphere_reject, energy_reject,
           M_other, mcs, pc, loc, event, trials, sweep_total0 >>

\* ------------------------------------------------------------ arithmetic
Abs(a) == IF a < 0 THEN 0 - a ELSE a

\* floor of the square root; 0 for a negative argument
ISqrt(n) == IF n <= 0 THEN 0 ELSE CHOOSE r \in 0 .. n : r * r <= n /\ n < (r + 1) * (r + 1)

IsSquare(n) == n >= 0 /\ ISqrt(n) * ISqrt(n) = n

Dot(a, b) == a[1] * b[1] + a[2] * b[2] + a[3] * b[3]

VAdd(a, b) == << a[1] + b[1], a[2] + b[2], a[3] + b[3] >>

VSub(a, b) == << a[1] - b[1], a[2] - b[2], a[3] - b[3] >>

Zero3 == << 0, 0, 0 >>

\* sin and cos of an angle given in degrees, lines 88-101, at right angles
SinDeg(a) == CASE a % 360 = 0 -> 0 [] a % 360 = 90 -> 1 [] a % 360 = 180 -> 0 [] a % 360 = 270 -> -1

CosDeg(a) == CASE a % 360 = 0 -> 1 [] a % 360 = 90 -> 0 [] a % 360 = 180 -> -1 [] a % 360 = 270 -> 0

\* vmath::matmul, vmath::transpose, vmath::sign
MatMul(A, B) == [i \in 1 .. Len(A) |-> [j \in 1 .. 3 |-> A[i][1] * B[1][j] + A[i][2] * B[2][j] + A[i][3] * B[3][j]]]

Transpose(A) == [i \in 1 .. 3 |-> [j \in 1 .. 3 |-> A[j][i]]]

Sign(a) == IF a < 0 THEN -1 ELSE 1

\* ------------------------------------------------------------ cmc::polar_rot_matrix
YRotationMatrix(phi) ==
  << << CosDeg(phi), 0, 0 - SinDeg(phi) >>,
     << 0, 1, 0 >>,
     << SinDeg(phi), 0, CosDeg(phi) >> >>

ZRotationMatrix(theta) ==
  << << CosDeg(theta), SinDeg(theta), 0 >>,
     << 0 - SinDeg(theta), CosDeg(theta), 0 >>,
     << 0, 0, 1 >> >>

PolarMatrix(phi, theta) == MatMul(YRotationMatrix(phi), ZRotationMatrix(theta))

PolarMatrixTp(phi, theta) == Transpose(PolarMatrix(phi, theta))

\* polar_vector = matmul(ref_vec, polar_matrix), a 1x3 matrix
PolarVector(phi, theta) == MatMul(<< << 0, 0, 1 >> >>, PolarMatrix(phi, theta))

\* the inlined matrix-vector products of the sweep
MatVec(A, v) == << Dot(A[1], v), Dot(A[2], v), Dot(A[3], v) >>

\* ------------------------------------------------------------ sim::CMCinit
\* the slip of writing cos(theta) in sy as in sx
InitSpinSameCosine(phi, theta) ==
  << SpinScale * SinDeg(phi) * CosDeg(theta),
     SpinScale * SinDeg(phi) * CosDeg(theta),
     SpinScale * CosDeg(phi) >>

\* (sx, sy, sz) of lines 167-169
InitSpin(phi, theta) ==
  << SpinScale * SinDeg(phi) * CosDeg(theta),
     SpinScale * SinDeg(phi) * SinDeg(theta),
     SpinScale * CosDeg(phi) >>

InitSpinArray(phi, theta) == [a \in Atoms |-> InitSpin(phi, theta)]

InitThermalFlag(f) == 0

\* ------------------------------------------------------------ sim::ConstrainedMonteCarlo
\* M_other of lines 250-258: the sum of the spin arrays
RECURSIVE SumUpTo(_, _)
SumUpTo(sp, n) == IF n = 0 THEN Zero3 ELSE VAdd(SumUpTo(sp, n - 1), sp[n - 1])

SumSpins(sp) == SumUpTo(sp, NumAtoms)

\* A trial vector t = spin + (gaussian, gaussian, gaussian), lines 276-278, is
\* drawn from the lattice vectors of a length in TrialLengths, in the quarter
\* x >= 0, y >= 0 of the lab frame, whose normalisation is a lattice vector.
\* The zero vector, which the continuous distribution gives with probability
\* 0, is left out.
NormSq(t) == Dot(t, t)

IsNormalisable(t) ==
  /\ NormSq(t) \in {n * n : n \in TrialLengths}
  /\ IsSquare(NormSq(t))
  /\ \A k \in 1 .. 3 : (SpinScale * t[k]) % ISqrt(NormSq(t)) = 0

TrialVectors == {t \in (0 .. SpinScale) \X (0 .. SpinScale) \X Coord : IsNormalisable(t)}

\* lines 280-284: spin1_final = t / |t|
Normalise(t) == [k \in 1 .. 3 |-> (SpinScale * t[k]) \div ISqrt(NormSq(t))]

\* the slip of adding spin1_fin_mvd instead of subtracting it
Spin2FinMvdXYAdded(s1im, s2im, s1fm) ==
  << s1im[1] + s2im[1] + s1fm[1], s1im[2] + s2im[2] + s1fm[2] >>

\* lines 324-325: the x and y components of spin2_fin_mvd
Spin2FinMvdXY(s1im, s2im, s1fm) ==
  << s1im[1] + s2im[1] - s1fm[1], s1im[2] + s2im[2] - s1fm[2] >>

\* x^2 + y^2 of spin2_fin_mvd, in units of 1/SpinScale^2
RadiusSq(xy) == xy[1] * xy[1] + xy[2] * xy[2]

\* the slip of <= for < in the sphere check
SphereCheckInclusive(xy, a1, a2) == RadiusSq(xy) <= SpinScale * SpinScale /\ a1 # a2

\* line 327: the condition of the if
SphereCheck(xy, a1, a2) == RadiusSq(xy) < SpinScale * SpinScale /\ a1 # a2

\* the slip of leaving the y term out of the square root
Spin2FinMvdZWithoutY(s2im, xy) == Sign(s2im[3]) * ISqrt(SpinScale * SpinScale - xy[1] * xy[1])

\* line 329: the z component of spin2_fin_mvd
Spin2FinMvdZ(s2im, xy) == Sign(s2im[3]) * ISqrt(SpinScale * SpinScale - xy[1] * xy[1] - xy[2] * xy[2])

\* lines 358 and 360-362, in units of 1/SpinScale
MzOld(M, pv) == Dot(M, pv)

MzNew(M, s1f, s2f, s1i, s2i, pv) == Dot(VSub(VSub(VAdd(VAdd(M, s1f), s2f), s1i), s2i), pv)

\* exp(-dE*kBTBohr) = 2^(-dE) as the fraction ExpNum/ExpDen
RECURSIVE Pow2(_)
Pow2(n) == IF n <= 0 THEN 1 ELSE 2 * Pow2(n - 1)

ExpNum(dE) == IF dE < 0 THEN Pow2(0 - dE) ELSE 1

ExpDen(dE) == IF dE < 0 THEN 1 ELSE Pow2(dE)

\* line 370 and the first conjunct of line 371: probability >= grnd(), u the
\* draw. With Mz_old = 0 the quotient Mz_new/Mz_old is
\* infinite or NaN in IEEE arithmetic: probability is +inf, and the comparison
\* true, unless Mz_new = 0 or spin2_init_mvd[2] = 0, which make it NaN.
ProbabilityGE(dE, Mzn, Mzo, zo, zn, u) ==
  IF Mzo = 0
  THEN Mzn # 0 /\ zo # 0
  ELSE ExpNum(dE) * Mzn * Mzn * Abs(zo) * u[2] >= u[1] * ExpDen(dE) * Mzo * Mzo * Abs(zn)

\* line 365
AcceptsUnconditionally(dE) == dE < 0

\* line 371
AcceptTest(pge, Mzn) == pge /\ Mzn >= 0

\* lines 372-374
MAccept(M, s1f, s2f, s1i, s2i) == VSub(VSub(VAdd(VAdd(M, s1f), s2f), s1i), s2i)

\* lines 298-300 and 344-346: the provisional writes
WriteSpin(sp, a, s) == [sp EXCEPT ![a] = s]

\* the slip of restoring spin 1 only on an energy reject
RejectRestoreFirstOnly(sp, a1, s1i, a2, s2i) == [sp EXCEPT ![a1] = s1i]

\* lines 380-386
RejectRestore(sp, a1, s1i, a2, s2i) == [sp EXCEPT ![a1] = s1i, ![a2] = s2i]

\* lines 394-396
SphereRestore(sp, a1, s1i) == [sp EXCEPT ![a1] = s1i]

\* the slip of not counting a sphere reject
CountSphereRejectForgotten(c) == c

\* lines 375, 388, 397, 400
CountSuccess(c) == c + 1

CountEnergyReject(c) == c + 1

CountSphereReject(c) == c + 1

CountTotal(c) == c + 1

NoLocals ==
  [ atom_number1 |-> 0, atom_number2 |-> 0, branch |-> "none", radius_sq |-> 0,
    Mz_new |-> 0, drew |-> FALSE, prob_ge |-> FALSE ]

\* ------------------------------------------------------------ state machine
\* Before the module is initialised the rotation matrices are empty, the
\* counters are 0.0 and the flag is false (lines 43-53); the spin arrays and
\* the thermal-field flag hold what the rest of the program left in them.
InitialSpins == { << SpinScale, 0, 0 >> }

Init ==
  /\ \E ang \in ConstraintAngles : constraint_phi = ang[1] /\ constraint_theta = ang[2]
  /\ polar_matrix = << >>
  /\ polar_matrix_tp = << >>
  /\ polar_vector = << >>
  /\ is_initialised = FALSE
  /\ \E s0 \in InitialSpins : spin = [a \in Atoms |-> s0]
  /\ thermal_flag \in {0, 1}
  /\ mc_success = 0
  /\ mc_total = 0
  /\ sphere_reject = 0
  /\ energy_reject = 0
  /\ M_other = Zero3
  /\ mcs = 0
  /\ pc = "idle"
  /\ loc = NoLocals
  /\ event = "start"
  /\ trials = 0
  /\ sweep_total0 = 0

\* sim::CMCinit, lines 158-183, called between sweeps
CMCinit ==
  /\ pc = "idle"
  /\ polar_matrix' = PolarMatrix(constraint_phi, constraint_theta)
  /\ polar_matrix_tp' = PolarMatrixTp(constraint_phi, constraint_theta)
  /\ polar_vector' = PolarVector(constraint_phi, constraint_theta)
  /\ spin' = InitSpinArray(constraint_phi, constraint_theta)
  /\ thermal_flag' = InitThermalFlag(thermal_flag)
  /\ is_initialised' = TRUE
  /\ event' = "CMCinit"
  /\ UNCHANGED << constraint_phi, constraint_theta, mc_success, mc_total,
                  sphere_reject, energy_reject, M_other, mcs, pc, loc, trials,
                  sweep_total0 >>

\* sim::ConstrainedMonteCarlo, lines 195-258: the lazy initialisation, then
\* M_other summed over the spin arrays, up to the head of the loop
SweepBegin ==
  /\ pc = "idle"
  /\ IF is_initialised
     THEN /\ spin' = spin
          /\ M_other' = SumSpins(spin)
          /\ event' = "begin"
          /\ UNCHANGED << polar_matrix, polar_matrix_tp, polar_vector, thermal_flag >>
     ELSE /\ polar_matrix' = PolarMatrix(constraint_phi, constraint_theta)
          /\ polar_matrix_tp' = PolarMatrixTp(constraint_phi, constraint_theta)
          /\ polar_vector' = PolarVector(constraint_phi, constraint_theta)
          /\ spin' = InitSpinArray(constraint_phi, constraint_theta)
          /\ thermal_flag' = InitThermalFlag(thermal_flag)
          /\ M_other' = SumSpins(InitSpinArray(constraint_phi, constraint_theta))
          /\ event' = "lazy_init"
  /\ is_initialised' = TRUE
  /\ mcs' = 0
  /\ pc' = "loop"
  /\ loc' = NoLocals
  /\ sweep_total0' = mc_total
  /\ UNCHANGED << constraint_phi, constraint_theta, mc_success, mc_total,
                  sphere_reject, energy_reject, trials >>

\* One iteration of the loop of line 260. The energies returned by
\* sim::calculate_spin_energy enter as the two differences delta_energy1 and
\* delta_energy2; they are read only once the sphere check has passed.
Trial ==
  /\ pc = "loop"
  /\ mcs < NumAtoms
  /\ trials < MaxTrials
  /\ \E a1 \in Atoms, t \in TrialVectors, a2 \in Atoms :
     \E s1i \in {spin[a1]}, s1f \in {Normalise(t)}, pv \in {polar_vector[1]} :
     \E s1im \in {MatVec(polar_matrix, s1i)}, s1fm \in {MatVec(polar_matrix, s1f)},
        spinA \in {WriteSpin(spin, a1, s1f)} :
     \E s2i \in {spinA[a2]} :
     \E s2im \in {MatVec(polar_matrix, s2i)} :
     \E xy \in {Spin2FinMvdXY(s1im, s2im, s1fm)} :
       IF SphereCheck(xy, a1, a2)
       THEN /\ IsSquare(SpinScale * SpinScale - RadiusSq(xy))
            /\ \E s2fm \in {<< xy[1], xy[2], Spin2FinMvdZ(s2im, xy) >>} :
               \E s2f \in {MatVec(polar_matrix_tp, s2fm)} :
               \E spinB \in {WriteSpin(spinA, a2, s2f)},
                  Mzo \in {MzOld(M_other, pv)},
                  Mzn \in {MzNew(M_other, s1f, s2f, s1i, s2i, pv)} :
               \E dE1 \in DeltaEnergies, dE2 \in DeltaEnergies :
                 LET dE == dE1 + dE2
                     l0 == [ atom_number1 |-> a1, atom_number2 |-> a2,
                             branch |-> "continue", radius_sq |-> RadiusSq(xy),
                             Mz_new |-> Mzn, drew |-> FALSE, prob_ge |-> FALSE ]
                 IN  IF AcceptsUnconditionally(dE)
                     THEN /\ spin' = spinB
                          /\ loc' = l0
                          /\ UNCHANGED << M_other, mc_success, energy_reject,
                                          sphere_reject, mc_total >>
                     ELSE \E u \in Uniforms :
                          \E pge \in {ProbabilityGE(dE, Mzn, Mzo, s2im[3], s2fm[3], u)} :
                            IF AcceptTest(pge, Mzn)
                            THEN /\ spin' = spinB
                                 /\ M_other' = MAccept(M_other, s1f, s2f, s1i, s2i)
                                 /\ mc_success' = CountSuccess(mc_success)
                                 /\ mc_total' = CountTotal(mc_total)
                                 /\ loc' = [l0 EXCEPT !.branch = "accept",
                                                      !.drew = TRUE, !.prob_ge = pge]
                                 /\ UNCHANGED << energy_reject, sphere_reject >>
                            ELSE /\ spin' = RejectRestore(spinB, a1, s1i, a2, s2i)
                                 /\ energy_reject' = CountEnergyReject(energy_reject)
                                 /\ mc_total' = CountTotal(mc_total)
                                 /\ loc' = [l0 EXCEPT !.branch = "reject",
                                                      !.drew = TRUE, !.prob_ge = pge]
                                 /\ UNCHANGED << M_other, mc_success, sphere_reject >>
       ELSE /\ spin' = SphereRestore(spinA, a1, s1i)
            /\ sphere_reject' = CountSphereReject(sphere_reject)
            /\ mc_total' = CountTotal(mc_total)
            /\ loc' = [ NoLocals EXCEPT !.atom_number1 = a1, !.atom_number2 = a2,
                                        !.branch = "sphere",
                                        !.radius_sq = RadiusSq(xy) ]
            /\ UNCHANGED << M_other, mc_success, energy_reject >>
  /\ mcs' = mcs + 1
  /\ trials' = trials + 1
  /\ event' = "trial"
  /\ UNCHANGED << constraint_phi, constraint_theta, polar_matrix, polar_matrix_tp,
                  polar_vector, is_initialised, thermal_flag, pc, sweep_total0 >>

\* line 402: the loop has run num_atoms times
SweepReturn ==
  /\ pc = "loop"
  /\ mcs = NumAtoms
  /\ pc' = "idle"
  /\ event' = "return"
  /\ UNCHANGED << constraint_phi, constraint_theta, polar_matrix, polar_matrix_tp,
                  polar_vector, is_initialised, spin, thermal_flag, mc_success,
                  mc_total, sphere_reject, energy_reject, M_other, mcs, loc, trials,
                  sweep_total0 >>

Next == CMCinit \/ SweepBegin \/ Trial \/ SweepReturn

Spec == Init /\ [][Next]_vars

\* ------------------------------------------------------------ properties
TotalSpin == SumSpins(spin)

Kept == loc.branch \in {"continue", "accept"}

PassedSphereCheck == loc.branch \in {"continue", "accept", "reject"}

InPlane(v) == << Dot(polar_matrix[1], v), Dot(polar_matrix[2], v) >>

InPlaneTotal == InPlane(TotalSpin)

AllAlongConstraint == \A a \in Atoms : MatVec(polar_matrix, spin[a]) = << 0, 0, SpinScale >>

\* C1: for a trial that passes the sphere check, the new spins are kept if and
\* only if the uniform number was drawn and Mz_new >= 0 and P >= u, whatever
\* the sign of dE.
C1_KeptIffFullCriterion ==
  (event = "trial" /\ PassedSphereCheck)
    => (Kept <=> (loc.drew /\ loc.Mz_new >= 0 /\ loc.prob_ge))

\* C2: after every trial of a sweep the running magnetisation M_other equals
\* the sum of the spins stored in the spin arrays.
C2_RunningSumIsSpinSum == (pc = "loop") => (M_other = TotalSpin)

\* C3: every trial adds one to mc_total, so mc_total equals the number of
\* trials run, and a sweep adds NumAtoms to it.
C3_EveryTrialCounted ==
  /\ mc_total = trials
  /\ (event = "return") => (mc_total = sweep_total0 + NumAtoms)

\* C4: mc_total = mc_success + energy_reject + sphere_reject in every state.
C4_CountersAddUp == mc_total = mc_success + energy_reject + sphere_reject

C4_Witness == mc_success > 0 /\ energy_reject > 0 /\ sphere_reject > 0

\* C5: a trial on sites (i, j) changes a spin only if the move was kept and
\* the site is i or j; a sphere reject and an energy reject change no spin.
C5_OnlyThePairChanges ==
  [][ (event' = "trial") =>
        \A a \in Atoms :
          (spin'[a] # spin[a]) =>
            (loc'.branch \in {"continue", "accept"}
               /\ a \in {loc'.atom_number1, loc'.atom_number2}) ]_vars

C5_Witness ==
  /\ trials = 2
  /\ loc.branch = "reject"
  /\ Cardinality({a \in Atoms : ~ (MatVec(polar_matrix, spin[a]) = << 0, 0, SpinScale >>)}) = 2

\* C6: from the initialised state on, after any sequence of trials, the x and
\* y components, in the constraint frame, of the sum of the spins are 0: no
\* trial changes them.
C6_InPlaneConserved == is_initialised => (InPlaneTotal = << 0, 0 >>)

C6_Witness ==
  /\ event = "trial"
  /\ Kept
  /\ InPlane(spin[loc.atom_number1]) # << 0, 0 >>
  /\ InPlane(spin[loc.atom_number2]) # << 0, 0 >>

\* C7: every spin of the spin arrays is a unit vector in every state.
C7_UnitSpins == \A a \in Atoms : NormSq(spin[a]) = SpinScale * SpinScale

C7_Witness ==
  /\ event = "trial"
  /\ Kept
  /\ \E a \in Atoms : spin[a][1] # 0 /\ spin[a][2] # 0 /\ spin[a][3] # 0

\* C8 as stated: after CMCinit has run, lazily or again, every spin is along
\* the constraint direction, the four counters are 0 and the thermal-field
\* flag is 0.
C8_InitResetsEverything ==
  (event \in {"CMCinit", "lazy_init"}) =>
    /\ AllAlongConstraint
    /\ thermal_flag = 0
    /\ mc_success = 0 /\ energy_reject = 0 /\ sphere_reject = 0 /\ mc_total = 0

\* C8 amended: CMCinit puts every spin along the constraint direction, clears
\* the thermal-field flag and sets is_initialised; it leaves the four counters
\* as they were, which is 0 at the lazy initialisation of the first sweep.
C8_InitKeepsCounters ==
  [][ (event' \in {"CMCinit", "lazy_init"}) =>
        /\ AllAlongConstraint'
        /\ thermal_flag' = 0
        /\ is_initialised'
        /\ << mc_success', energy_reject', sphere_reject', mc_total' >>
             = << mc_success, energy_reject, sphere_reject, mc_total >>
        /\ (event' = "lazy_init") => (mc_total' = 0 /\ mc_success' = 0
                                        /\ energy_reject' = 0 /\ sphere_reject' = 0) ]_vars

C8_Witness == event = "CMCinit" /\ mc_total > 0 /\ mc_success > 0

\* C9: a trial is a sphere reject exactly when j = i or x^2 + y^2 >= 1 for the
\* proposed spin of j; then no spin is changed, sphere_reject grows by one and
\* mc_success, energy_reject and M_other are unchanged.
C9_SphereReject ==
  [][ (event' = "trial") =>
        /\ (loc'.branch = "sphere")
             <=> (loc'.atom_number1 = loc'.atom_number2
                    \/ loc'.radius_sq >= SpinScale * SpinScale)
        /\ (loc'.branch = "sphere") =>
             /\ spin' = spin
             /\ sphere_reject' = sphere_reject + 1
             /\ mc_success' = mc_success
             /\ energy_reject' = energy_reject
             /\ M_other' = M_other ]_vars

C9_Witness ==
  /\ event = "trial"
  /\ loc.branch = "sphere"
  /\ loc.atom_number1 # loc.atom_number2
  /\ loc.radius_sq = SpinScale * SpinScale

\* C10: once initialised, the projection of the sum of the stored spins on the
\* constraint vector is never negative.
C10_ProjectionNonNegative == is_initialised => (Dot(TotalSpin, polar_vector[1]) >= 0)

====
